---- MODULE Spec2Model ----
(***************************************************************************)
(* Model of frigate_reviewer.py: the MQTT listener callbacks (on_connect,  *)
(* on_message), the event queue, the worker thread (worker, process_event, *)
(* mark_event_as_false_positive) and the supervisor (main).                *)
(*                                                                         *)
(* Threads: the main thread (mpc), the paho client thread that runs the    *)
(* callbacks, and the worker thread (wpc).  process_event is split at its  *)
(* external calls so that the main thread's stop_event.set() and the       *)
(* listener's put() can interleave with it as they do in the program.      *)
(***************************************************************************)
EXTENDS Integers, Sequences, FiniteSets, TLC

\* ---- bounds of the model ----
MaxMsgs == 2        \* inbound messages delivered to on_message
MaxDet == 2         \* boxes returned by one detector invocation

\* ---- program constants ----
\* Confidences are in hundredths: 0.5 is 50.
CONFIDENCE_THRESHOLD == 50
TARGET_CLASSES == {"person", "car", "truck", "dog", "cat"}

\* Python's None (dict.get on a missing key, unbound optional values).
None == "<None>"

\* ---- inbound payloads (msg.payload) ----
\* json:  "invalid" = bytes json.loads rejects with JSONDecodeError,
\*        "array"   = valid JSON whose top-level value is not an object,
\*        "object"  = a JSON object.
\* type:  payload['type'], None when the key is missing.
\* after: "missing" = no 'after' key, "string" = 'after' is not an object,
\*        "object" = 'after' is an object.
\* id, camera: the values of after['id'], after['camera'], None when missing.
\* hs_present / has_snapshot: whether after has 'has_snapshot', and its value.
Msg(json, type, after, id, hs_present, has_snapshot) ==
    [json |-> json, type |-> type, after |-> after, id |-> id,
     camera |-> IF after = "object" THEN "front" ELSE None,
     labels |-> IF after = "object" THEN <<"person">> ELSE <<>>,
     hs_present |-> hs_present, has_snapshot |-> has_snapshot]

Messages ==
    { Msg("invalid", None, "missing", None, FALSE, FALSE),
      Msg("array", None, "missing", None, FALSE, FALSE),
      Msg("object", None, "object", "e1", TRUE, TRUE),
      Msg("object", "update", "object", "e1", TRUE, TRUE),
      Msg("object", "end", "missing", None, FALSE, FALSE),
      Msg("object", "end", "string", None, FALSE, FALSE),
      Msg("object", "end", "object", None, TRUE, TRUE),
      Msg("object", "end", "object", "", TRUE, TRUE),
      Msg("object", "end", "object", "e1", TRUE, TRUE),
      Msg("object", "end", "object", "e2", TRUE, TRUE),
      Msg("object", "end", "object", "e2", TRUE, FALSE),
      Msg("object", "end", "object", "e2", FALSE, FALSE) }

\* ---- detector outputs (results[0].boxes) ----
\* A target class below, at and above the threshold, and a class outside
\* TARGET_CLASSES above it.
Boxes == { [class |-> "person", confidence |-> 30],
           [class |-> "person", confidence |-> 50],
           [class |-> "person", confidence |-> 82],
           [class |-> "bird", confidence |-> 82] }

RECURSIVE SeqsUpTo(_, _)
SeqsUpTo(S, n) ==
    IF n = 0 THEN {<<>>}
    ELSE LET shorter == SeqsUpTo(S, n - 1)
         IN  shorter \cup {Append(s, x) : s \in {t \in shorter : Len(t) = n - 1}, x \in S}

DetectorOutputs == SeqsUpTo(Boxes, MaxDet)

\* ---- state ----
VARIABLES
    mpc,              \* main thread position
    client_loop,      \* the client thread (client.loop_forever) is running
    subscribed,       \* client.subscribe(MQTT_TOPIC) has been called
    connack,          \* "pending", then how the broker answered
    event_queue,      \* queue.Queue(): FIFO of event_details
    unfinished_tasks, \* queue.Queue.unfinished_tasks
    arrivals,         \* for each queued item, its rank among the events put
    stop_event,       \* threading.Event
    wpc,              \* worker thread position
    event_details,    \* worker local: the item last returned by get
    objects,          \* process_event local: results[0].boxes
    valid_detection,  \* process_event local
    detections,       \* process_event local
    final_decision,   \* debug_info['final_decision'], "none" before line 178
    calls,            \* external calls of the current attempt
    written,          \* files written by the current attempt
    failure,          \* what failed in the current attempt, "none" if nothing
    outcome,          \* how the current attempt ended, "none" while running
    msg_exc,          \* exception that escaped the last on_message call
    nMsg, nEnq, nDeq, \* messages delivered, events put, events got
    taken,            \* rank among the events put of the item last got
    deqAfterStop,     \* events got while stop_event was set
    nExc,             \* exceptions caught by the worker's except Exception
    stopAtCheck,      \* stop_event.is_set() as read by the last loop check
    stopAtGet,        \* stop_event at the moment the last get() was entered
    stop_mid          \* stop_event was set while an event was being processed

vars == <<mpc, client_loop, subscribed, connack, event_queue, unfinished_tasks,
          stop_event, wpc, event_details, objects, valid_detection, detections,
          final_decision, calls, written, failure, outcome, msg_exc,
          nMsg, nEnq, nDeq, nExc, stopAtCheck, stopAtGet, stop_mid,
          arrivals, taken, deqAfterStop>>

mainVars == <<mpc, client_loop, stop_event, stop_mid>>
connVars == <<subscribed, connack>>
queueVars == <<event_queue, arrivals, unfinished_tasks>>
deqVars == <<nDeq, taken, deqAfterStop>>
listenerVars == <<msg_exc, nMsg, nEnq>>
localVars == <<objects, valid_detection, detections, final_decision>>
attemptVars == <<calls, written, failure, outcome>>
loopVars == <<stopAtCheck, stopAtGet>>

NoEvent == [id |-> None, camera |-> None, labels |-> <<>>, has_snapshot |-> FALSE]
NoCalls == [fetch |-> 0, detect |-> 0, mark |-> <<>>]

\* The worker positions between a successful get and the matching task_done.
ProcessingPcs == {"process_event", "fetch", "detect", "audit", "dispatch",
                  "save", "task_done", "except"}

Init ==
    /\ mpc = "connect"
    /\ client_loop = FALSE
    /\ subscribed = FALSE
    /\ connack = "pending"
    /\ event_queue = <<>>
    /\ unfinished_tasks = 0
    /\ stop_event = FALSE
    /\ wpc = "unstarted"
    /\ event_details = NoEvent
    /\ objects = <<>>
    /\ valid_detection = FALSE
    /\ detections = <<>>
    /\ final_decision = "none"
    /\ calls = NoCalls
    /\ written = {}
    /\ failure = "none"
    /\ outcome = "none"
    /\ msg_exc = "none"
    /\ nMsg = 0
    /\ nEnq = 0
    /\ nDeq = 0
    /\ nExc = 0
    /\ stopAtCheck = FALSE
    /\ stopAtGet = FALSE
    /\ stop_mid = FALSE
    /\ arrivals = <<>>
    /\ taken = 0
    /\ deqAfterStop = 0

\* ---------------------------------------------------------------------
\* Listener callbacks
\* ---------------------------------------------------------------------

\* on_connect: subscribe only when the broker accepted the connection.
ReturnCodes == {0, 5}

on_connect(rc) ==
    /\ client_loop
    /\ mpc # "done"
    /\ connack = "pending"
    /\ connack' = IF rc = 0 THEN "accepted" ELSE "refused"
    /\ subscribed' = (rc = 0)
    /\ UNCHANGED <<mainVars, queueVars, wpc, event_details, localVars,
                   attemptVars, listenerVars, deqVars, nExc, loopVars>>

\* Python truthiness of an identifier: 'not event_id'.
Falsy(x) == x \in {None, ""}

\* The dict on_message enqueues (lines 71-87), for a payload whose 'after'
\* is an object or missing (payload.get('after', {})).
EventDetailsOf(m) ==
    [id |-> IF m.after = "object" THEN m.id ELSE None,
     camera |-> IF m.after = "object" THEN m.camera ELSE None,
     labels |-> IF m.after = "object" THEN m.labels ELSE <<>>,
     has_snapshot |-> IF m.after = "object" /\ m.hs_present
                      THEN m.has_snapshot ELSE FALSE]

\* What one call of on_message(m) does: "drop" (return without effect),
\* "raise" (AttributeError from .get on a non-dict escapes), or "put".
OnMessageResultNoIdCheck(m) ==
    IF m.json = "invalid" THEN "drop"
    ELSE IF m.json # "object" THEN "raise"
    ELSE IF m.type # "end" THEN "drop"
    ELSE IF m.after = "string" THEN "raise"
    ELSE "put"

OnMessageResult(m) ==
    IF m.json = "invalid" THEN "drop"                  \* JSONDecodeError caught
    ELSE IF m.json # "object" THEN "raise"             \* payload.get
    ELSE IF m.type # "end" THEN "drop"
    ELSE IF m.after = "string" THEN "raise"            \* event.get
    ELSE IF Falsy(EventDetailsOf(m).id) THEN "drop"
    ELSE "put"

on_message(m) ==
    /\ client_loop
    /\ subscribed
    /\ mpc # "done"
    /\ nMsg < MaxMsgs
    /\ nMsg' = nMsg + 1
    /\ LET r == OnMessageResult(m) IN
         /\ msg_exc' = IF r = "raise" THEN "AttributeError" ELSE "none"
         /\ IF r = "put"
            THEN /\ event_queue' = Append(event_queue, EventDetailsOf(m))
                 /\ arrivals' = Append(arrivals, nEnq + 1)
                 /\ unfinished_tasks' = unfinished_tasks + 1
                 /\ nEnq' = nEnq + 1
            ELSE UNCHANGED <<event_queue, arrivals, unfinished_tasks, nEnq>>
    /\ UNCHANGED <<mainVars, connVars, wpc, event_details, localVars,
                   attemptVars, deqVars, nExc, loopVars>>

\* ---------------------------------------------------------------------
\* process_event and mark_event_as_false_positive
\* ---------------------------------------------------------------------

\* Line 163: class_name in TARGET_CLASSES.
InTargetClasses(class_name) == class_name \in TARGET_CLASSES

\* Line 164: confidence > CONFIDENCE_THRESHOLD.
PassesThresholdGE(confidence) == confidence >= CONFIDENCE_THRESHOLD

PassesThreshold(confidence) == confidence > CONFIDENCE_THRESHOLD

\* Lines 138-169: the scan over the boxes from index i on, with the
\* detections recorded so far.  Every examined box is appended before it is
\* tested; the first box that is in a target class and passes the threshold
\* sets valid_detection and breaks out of the loop.
RECURSIVE ScanObjectsNoBreak(_, _, _)
ScanObjectsNoBreak(objs, i, dets) ==
    IF i > Len(objs) THEN [valid_detection |-> FALSE, detections |-> dets]
    ELSE LET obj == objs[i]
             rest == ScanObjectsNoBreak(objs, i + 1, Append(dets, obj))
         IN  IF InTargetClasses(obj.class) /\ PassesThreshold(obj.confidence)
             THEN [valid_detection |-> TRUE, detections |-> rest.detections]
             ELSE rest

RECURSIVE ScanObjects(_, _, _)
ScanObjects(objs, i, dets) ==
    IF i > Len(objs) THEN [valid_detection |-> FALSE, detections |-> dets]
    ELSE LET obj == objs[i]
             recorded == Append(dets, obj)
         IN  IF InTargetClasses(obj.class) /\ PassesThreshold(obj.confidence)
             THEN [valid_detection |-> TRUE, detections |-> recorded]
             ELSE ScanObjects(objs, i + 1, recorded)

\* Lines 112-120: read the event, return at once when it has no snapshot.
ProcStartNoCheck ==
    /\ wpc = "process_event"
    /\ wpc' = "fetch"
    /\ UNCHANGED <<mainVars, connVars, queueVars, event_details, localVars,
                   attemptVars, listenerVars, deqVars, nExc, loopVars>>

ProcStart ==
    /\ wpc = "process_event"
    /\ IF ~event_details.has_snapshot
       THEN /\ wpc' = "task_done"
            /\ outcome' = "skipped"
       ELSE /\ wpc' = "fetch"
            /\ UNCHANGED outcome
    /\ UNCHANGED <<mainVars, connVars, queueVars, event_details, localVars,
                   calls, written, failure, listenerVars, deqVars, nExc, loopVars>>

\* Lines 123-131: requests.get, raise_for_status, Image.open(...).convert.
\* res is "ok", "fetch" (transport error or non-2xx status) or "decode"
\* (the bytes are not an image); both failures are caught by the
\* except Exception of line 129, which logs and returns.
FetchResults == {"ok", "fetch", "decode"}

ProcFetchFallThrough(res) ==
    /\ wpc = "fetch"
    /\ calls' = [calls EXCEPT !.fetch = @ + 1]
    /\ IF res = "ok"
       THEN /\ wpc' = "detect"
            /\ UNCHANGED <<failure, localVars>>
       ELSE /\ failure' = res
            /\ wpc' = "audit"
            /\ final_decision' = "false_positive"
            /\ UNCHANGED <<objects, valid_detection, detections>>
    /\ UNCHANGED <<mainVars, connVars, queueVars, event_details, outcome,
                   written, listenerVars, deqVars, nExc, loopVars>>

ProcFetch(res) ==
    /\ wpc = "fetch"
    /\ calls' = [calls EXCEPT !.fetch = @ + 1]
    /\ IF res = "ok"
       THEN /\ wpc' = "detect"
            /\ UNCHANGED <<failure, outcome>>
       ELSE /\ failure' = res
            /\ outcome' = "failed"
            /\ wpc' = "task_done"
    /\ UNCHANGED <<mainVars, connVars, queueVars, event_details, localVars,
                   written, listenerVars, deqVars, nExc, loopVars>>

\* Lines 134-179: yolo_model(image) either raises (the exception leaves
\* process_event) or returns boxes, which are scanned and turned into
\* debug_info['final_decision'].
ProcDetectRaise ==
    /\ wpc = "detect"
    /\ calls' = [calls EXCEPT !.detect = @ + 1]
    /\ failure' = "detect"
    /\ outcome' = "failed"
    /\ wpc' = "except"
    /\ UNCHANGED <<mainVars, connVars, queueVars, event_details, localVars,
                   written, listenerVars, deqVars, nExc, loopVars>>

ProcDetect(boxes) ==
    /\ wpc = "detect"
    /\ calls' = [calls EXCEPT !.detect = @ + 1]
    /\ objects' = boxes
    /\ LET scan == ScanObjects(boxes, 1, <<>>) IN
         /\ valid_detection' = scan.valid_detection
         /\ detections' = scan.detections
         /\ final_decision' = IF scan.valid_detection THEN "valid"
                              ELSE "false_positive"
    /\ wpc' = "audit"
    /\ UNCHANGED <<mainVars, connVars, queueVars, event_details, written,
                   failure, outcome, listenerVars, deqVars, nExc, loopVars>>

\* Lines 181-188: os.makedirs, then detection_details.json, then snapshot.jpg
\* under reviewed_images/debug/<id>.  fail_at names the first call that
\* raises OSError ("none": all succeed); the exception leaves process_event.
AuditFailures == {"none", "makedirs", "details", "snapshot"}

ProcAudit(fail_at) ==
    /\ wpc = "audit"
    /\ written' = written \cup
                    (IF fail_at \in {"none", "snapshot"}
                     THEN {"debug/details"} ELSE {}) \cup
                    (IF fail_at = "none" THEN {"debug/snapshot"} ELSE {})
    /\ IF fail_at = "none"
       THEN /\ wpc' = "dispatch"
            /\ UNCHANGED <<failure, outcome>>
       ELSE /\ failure' = "audit"
            /\ outcome' = "failed"
            /\ wpc' = "except"
    /\ UNCHANGED <<mainVars, connVars, queueVars, event_details, localVars,
                   calls, listenerVars, deqVars, nExc, loopVars>>

\* Lines 91-106: one requests.put for the event; status 200, another status
\* and a RequestException are all handled inside (logged), nothing is
\* retried and nothing is raised.
MarkResults == {"200", "500", "RequestException"}

mark_event_as_false_positive(event_id, res) ==
    calls' = [calls EXCEPT !.mark = Append(@, [id |-> event_id, result |-> res])]

\* Lines 191-197: pick the output path; for a false positive call
\* mark_event_as_false_positive.
ProcDispatch ==
    /\ wpc = "dispatch"
    /\ IF valid_detection
       THEN UNCHANGED calls
       ELSE \E res \in MarkResults :
                mark_event_as_false_positive(event_details.id, res)
    /\ wpc' = "save"
    /\ UNCHANGED <<mainVars, connVars, queueVars, event_details, localVars,
                   written, failure, outcome, listenerVars, deqVars, nExc,
                   loopVars>>

\* Lines 199-200: write the snapshot to reviewed_images/true or /false.
ProcSave(ok) ==
    /\ wpc = "save"
    /\ IF ok
       THEN /\ written' = written \cup {IF valid_detection THEN "true"
                                        ELSE "false"}
            /\ outcome' = final_decision
            /\ wpc' = "task_done"
            /\ UNCHANGED failure
       ELSE /\ failure' = "save"
            /\ outcome' = "failed"
            /\ wpc' = "except"
            /\ UNCHANGED written
    /\ UNCHANGED <<mainVars, connVars, queueVars, event_details, localVars,
                   calls, listenerVars, deqVars, nExc, loopVars>>

\* ---------------------------------------------------------------------
\* worker
\* ---------------------------------------------------------------------

\* Line 206: while not stop_event.is_set().
WorkerCheckIgnoresStop ==
    /\ wpc = "loop"
    /\ stopAtCheck' = stop_event
    /\ wpc' = "get"
    /\ UNCHANGED <<mainVars, connVars, queueVars, event_details, localVars,
                   attemptVars, listenerVars, deqVars, nExc, stopAtGet>>

WorkerCheckDrains ==
    /\ wpc = "loop"
    /\ stopAtCheck' = stop_event
    /\ wpc' = IF stop_event /\ event_queue = <<>> THEN "exited" ELSE "get"
    /\ UNCHANGED <<mainVars, connVars, queueVars, event_details, localVars,
                   attemptVars, listenerVars, deqVars, nExc, stopAtGet>>

WorkerCheck ==
    /\ wpc = "loop"
    /\ stopAtCheck' = stop_event
    /\ wpc' = IF stop_event THEN "exited" ELSE "get"
    /\ UNCHANGED <<mainVars, connVars, queueVars, event_details, localVars,
                   attemptVars, listenerVars, deqVars, nExc, stopAtGet>>

\* Line 209: the call event_queue.get(timeout=1) is entered.
WorkerEnterGet ==
    /\ wpc = "get"
    /\ stopAtGet' = stop_event
    /\ wpc' = "in_get"
    /\ UNCHANGED <<mainVars, connVars, queueVars, event_details, localVars,
                   attemptVars, listenerVars, deqVars, nExc, stopAtCheck>>

\* Line 209: get returns the oldest item as soon as the queue is non-empty.
\* The locals of the previous process_event call are gone by now.
WorkerGetItemNewestFirst ==
    /\ wpc = "in_get"
    /\ event_queue # <<>>
    /\ event_details' = event_queue[Len(event_queue)]
    /\ event_queue' = SubSeq(event_queue, 1, Len(event_queue) - 1)
    /\ taken' = arrivals[Len(arrivals)]
    /\ arrivals' = SubSeq(arrivals, 1, Len(arrivals) - 1)
    /\ nDeq' = nDeq + 1
    /\ deqAfterStop' = IF stop_event THEN deqAfterStop + 1 ELSE deqAfterStop
    /\ wpc' = "process_event"
    /\ UNCHANGED <<mainVars, connVars, unfinished_tasks, localVars,
                   attemptVars, listenerVars, nExc, loopVars>>

WorkerGetItem ==
    /\ wpc = "in_get"
    /\ event_queue # <<>>
    /\ event_details' = Head(event_queue)
    /\ event_queue' = Tail(event_queue)
    /\ taken' = Head(arrivals)
    /\ arrivals' = Tail(arrivals)
    /\ nDeq' = nDeq + 1
    /\ deqAfterStop' = IF stop_event THEN deqAfterStop + 1 ELSE deqAfterStop
    /\ wpc' = "process_event"
    /\ UNCHANGED <<mainVars, connVars, unfinished_tasks, localVars,
                   attemptVars, listenerVars, nExc, loopVars>>

\* Lines 209, 212-213: the queue stayed empty for the whole timeout,
\* get raises queue.Empty and the loop continues.
WorkerGetTimeoutBreaks ==
    /\ wpc = "in_get"
    /\ event_queue = <<>>
    /\ wpc' = "exited"
    /\ UNCHANGED <<mainVars, connVars, queueVars, event_details, localVars,
                   attemptVars, listenerVars, deqVars, nExc, loopVars>>

WorkerGetBlocksForever ==
    /\ wpc = "in_get"
    /\ event_queue = <<>>
    /\ UNCHANGED vars

WorkerGetTimeout ==
    /\ wpc = "in_get"
    /\ event_queue = <<>>
    /\ wpc' = "loop"
    /\ UNCHANGED <<mainVars, connVars, queueVars, event_details, localVars,
                   attemptVars, listenerVars, deqVars, nExc, loopVars>>

\* The state of an attempt is dropped when the worker returns to its loop.
ResetAttempt ==
    /\ objects' = <<>>
    /\ valid_detection' = FALSE
    /\ detections' = <<>>
    /\ final_decision' = "none"
    /\ calls' = NoCalls
    /\ written' = {}
    /\ failure' = "none"
    /\ outcome' = "none"

\* Line 211: process_event returned, event_queue.task_done().
WorkerTaskDone ==
    /\ wpc = "task_done"
    /\ unfinished_tasks' = unfinished_tasks - 1
    /\ wpc' = "loop"
    /\ ResetAttempt
    /\ UNCHANGED <<mainVars, connVars, event_queue, arrivals, event_details,
                   listenerVars, deqVars, nExc, loopVars>>

\* Lines 214-217: process_event raised; the exception is logged and, the
\* item being a non-empty dict, task_done is called.
WorkerExceptDies ==
    /\ wpc = "except"
    /\ nExc' = nExc + 1
    /\ wpc' = "exited"
    /\ ResetAttempt
    /\ UNCHANGED <<mainVars, connVars, queueVars, event_details,
                   listenerVars, deqVars, loopVars>>

WorkerExceptRetries ==
    /\ wpc = "except"
    /\ nExc' = nExc + 1
    /\ event_queue' = Append(event_queue, event_details)
    /\ arrivals' = Append(arrivals, taken)
    /\ wpc' = "loop"
    /\ ResetAttempt
    /\ UNCHANGED <<mainVars, connVars, unfinished_tasks, event_details,
                   listenerVars, deqVars, loopVars>>

WorkerExceptNoTaskDone ==
    /\ wpc = "except"
    /\ nExc' = nExc + 1
    /\ wpc' = "loop"
    /\ ResetAttempt
    /\ UNCHANGED <<mainVars, connVars, queueVars, event_details,
                   listenerVars, deqVars, loopVars>>

WorkerExcept ==
    /\ wpc = "except"
    /\ nExc' = nExc + 1
    /\ unfinished_tasks' = IF event_details # NoEvent
                           THEN unfinished_tasks - 1 ELSE unfinished_tasks
    /\ wpc' = "loop"
    /\ ResetAttempt
    /\ UNCHANGED <<mainVars, connVars, event_queue, arrivals, event_details,
                   listenerVars, deqVars, loopVars>>

\* ---------------------------------------------------------------------
\* main
\* ---------------------------------------------------------------------

\* Lines 234-238: client.connect raises (main logs and returns) or not.
MainConnect(ok) ==
    /\ mpc = "connect"
    /\ mpc' = IF ok THEN "start_worker" ELSE "returned"
    /\ UNCHANGED <<client_loop, stop_event, stop_mid, connVars, queueVars,
                   wpc, event_details, localVars, attemptVars, listenerVars,
                   deqVars, nExc, loopVars>>

\* Line 241: start_worker().
MainStartWorker ==
    /\ mpc = "start_worker"
    /\ wpc' = "loop"
    /\ mpc' = "start_client"
    /\ UNCHANGED <<client_loop, stop_event, stop_mid, connVars, queueVars,
                   event_details, localVars, attemptVars, listenerVars,
                   deqVars, nExc, loopVars>>

\* Lines 244-245: the client loop thread is started.
MainStartClient ==
    /\ mpc = "start_client"
    /\ client_loop' = TRUE
    /\ mpc' = "running"
    /\ UNCHANGED <<stop_event, stop_mid, connVars, queueVars, wpc,
                   event_details, localVars, attemptVars, listenerVars,
                   deqVars, nExc, loopVars>>

\* Lines 247-252: KeyboardInterrupt in the sleep loop, stop_event.set().
MainInterrupt ==
    /\ mpc = "running"
    /\ stop_event' = TRUE
    /\ stop_mid' = (wpc \in ProcessingPcs)
    /\ mpc' = "join"
    /\ UNCHANGED <<client_loop, connVars, queueVars, wpc, event_details,
                   localVars, attemptVars, listenerVars, deqVars, nExc, loopVars>>

\* Line 253: worker_thread.join() returns once the worker has exited.
MainJoinNoWait ==
    /\ mpc = "join"
    /\ mpc' = "disconnect"
    /\ UNCHANGED <<client_loop, stop_event, stop_mid, connVars, queueVars,
                   wpc, event_details, localVars, attemptVars, listenerVars,
                   deqVars, nExc, loopVars>>

MainJoin ==
    /\ mpc = "join"
    /\ wpc = "exited"
    /\ mpc' = "disconnect"
    /\ UNCHANGED <<client_loop, stop_event, stop_mid, connVars, queueVars,
                   wpc, event_details, localVars, attemptVars, listenerVars,
                   deqVars, nExc, loopVars>>

\* Lines 254-255: client.disconnect(), "Shutdown complete".
MainDisconnect ==
    /\ mpc = "disconnect"
    /\ client_loop' = FALSE
    /\ mpc' = "done"
    /\ UNCHANGED <<stop_event, stop_mid, connVars, queueVars, wpc,
                   event_details, localVars, attemptVars, listenerVars,
                   deqVars, nExc, loopVars>>

\* ---------------------------------------------------------------------
\* Specifications
\* ---------------------------------------------------------------------

Listener ==
    \/ \E rc \in ReturnCodes : on_connect(rc)
    \/ \E m \in Messages : on_message(m)

Worker ==
    \/ WorkerCheck
    \/ WorkerEnterGet
    \/ WorkerGetItem
    \/ WorkerGetTimeout
    \/ ProcStart
    \/ \E res \in FetchResults : ProcFetch(res)
    \/ ProcDetectRaise
    \/ \E boxes \in DetectorOutputs : ProcDetect(boxes)
    \/ \E fail_at \in AuditFailures : ProcAudit(fail_at)
    \/ ProcDispatch
    \/ \E ok \in BOOLEAN : ProcSave(ok)
    \/ WorkerTaskDone
    \/ WorkerExcept

Main ==
    \/ \E ok \in BOOLEAN : MainConnect(ok)
    \/ MainStartWorker
    \/ MainStartClient
    \/ MainInterrupt
    \/ MainJoin
    \/ MainDisconnect

Next == Listener \/ Worker \/ Main

Spec == Init /\ [][Next]_vars

\* The worker thread keeps being scheduled and its external calls return.
FairSpec == Spec /\ WF_vars(Worker)

\* As FairSpec, and the main thread, once interrupted, keeps running:
\* join returns when the worker has exited, then disconnect returns.
ShutdownFairSpec ==
    Spec /\ WF_vars(Worker) /\ WF_vars(MainJoin) /\ WF_vars(MainDisconnect)

\* ---------------------------------------------------------------------
\* Properties
\* ---------------------------------------------------------------------

\* C1: once process_event has rendered its decision, the decision is
\* "valid" exactly when the detector's output holds a box whose class is in
\* TARGET_CLASSES and whose confidence is strictly above
\* CONFIDENCE_THRESHOLD, and "false_positive" otherwise (empty output, a
\* target class at exactly the threshold, a confident non-target class).
C1_DecisionRule ==
    final_decision # "none" =>
        /\ final_decision \in {"valid", "false_positive"}
        /\ final_decision = "valid" <=>
               \E i \in 1..Len(objects) :
                   /\ objects[i].class \in TARGET_CLASSES
                   /\ objects[i].confidence > CONFIDENCE_THRESHOLD

\* A false-positive decision over a target class at exactly the threshold
\* followed by a confident non-target class.
C1_Witness ==
    /\ final_decision = "false_positive"
    /\ Len(objects) = 2
    /\ objects[1] = [class |-> "person", confidence |-> 50]
    /\ objects[2] = [class |-> "bird", confidence |-> 82]

\* C2: when a processing attempt has ended, an attempt whose decision was
\* false_positive has issued exactly one mark-as-false-positive call, with
\* the event's identifier, and an attempt whose decision was valid has
\* issued none.
C2_ExactlyOneMark ==
    outcome # "none" =>
        /\ final_decision = "false_positive" =>
               /\ Len(calls.mark) = 1
               /\ calls.mark[1].id = event_details.id
        /\ final_decision = "valid" => calls.mark = <<>>

\* C3: while the worker holds an event without a snapshot, no fetch, no
\* detector invocation and no mark call has been made for it, no decision
\* is rendered, and the attempt ends as skipped.
C3_NoSnapshotSkipped ==
    (wpc \in ProcessingPcs /\ ~event_details.has_snapshot) =>
        /\ calls = NoCalls
        /\ final_decision = "none"
        /\ wpc \in {"process_event", "task_done"}
        /\ wpc = "task_done" => outcome = "skipped"

\* An event without a snapshot has been processed.
C3_Witness ==
    /\ wpc = "task_done"
    /\ ~event_details.has_snapshot
    /\ outcome = "skipped"

\* C4: an attempt whose snapshot fetch, image decode or detector invocation
\* failed has ended as failed, with no decision rendered and no
\* mark-as-false-positive call issued.
C4_FailureNeverMarks ==
    failure \in {"fetch", "decode", "detect"} =>
        /\ outcome = "failed"
        /\ final_decision = "none"
        /\ calls.mark = <<>>
        /\ wpc \in {"task_done", "except"}

\* The detector was invoked and raised.
C4_Witness ==
    /\ failure = "detect"
    /\ calls.detect = 1
    /\ outcome = "failed"

\* C5: the worker thread has exited only if the stop signal is set, and
\* from its exception handler it goes back to the head of its loop.
C5_WorkerSurvives ==
    /\ [](wpc = "exited" => stop_event)
    /\ [][wpc = "except" => wpc' \in {"except", "loop"}]_vars

\* After an exception was caught, the worker is processing a later event.
C5_Witness ==
    /\ nExc >= 1
    /\ wpc = "process_event"
    /\ ~stop_event

\* C6: a call of on_message with a malformed payload (not JSON, a top-level
\* value that is not an object, an 'after' field that is not an object)
\* leaves the queue unchanged and lets no exception escape.
C6_MalformedDropped ==
    [][\A m \in Messages :
          (on_message(m) /\ (m.json # "object" \/ m.after = "string")) =>
              /\ event_queue' = event_queue
              /\ msg_exc' = "none"]_vars

\* C7: on_message appends exactly one event, carrying the message's id, for
\* a message of type 'end' whose 'after' record has a non-empty id, and
\* leaves the queue unchanged for every other message; every queued item
\* has a non-empty id.
C7_EnqueueOnlyValidEnd ==
    /\ [](\A i \in 1..Len(event_queue) : event_queue[i].id \notin {None, ""})
    /\ [][\A m \in Messages :
             on_message(m) =>
                 IF /\ m.json = "object"
                    /\ m.type = "end"
                    /\ m.after = "object"
                    /\ m.id \notin {None, ""}
                 THEN /\ Len(event_queue') = Len(event_queue) + 1
                      /\ SubSeq(event_queue', 1, Len(event_queue)) = event_queue
                      /\ event_queue'[Len(event_queue')].id = m.id
                 ELSE event_queue' = event_queue]_vars

\* One message was dropped and one was enqueued.
C7_Witness ==
    /\ nMsg = 2
    /\ nEnq = 1
    /\ Len(event_queue) = 1

\* C8 as stated: every enqueued event is eventually dequeued.
C8_EveryEventDequeued ==
    \A n \in 1..MaxMsgs : (nEnq >= n) ~> (nDeq >= n)

\* C8: under fair scheduling of the worker, every enqueued event is
\* eventually dequeued unless the stop signal is raised.
C8_DequeuedUnlessStopped ==
    \A n \in 1..MaxMsgs : (nEnq >= n) ~> (nDeq >= n \/ stop_event)

\* Two events were enqueued and both dequeued, without a stop.
C8_Witness ==
    /\ nEnq = 2
    /\ nDeq = 2
    /\ ~stop_event

\* C9 as stated: no event is removed by a get that was entered after
\* stop_event was set.
C9_NoDequeueBegunAfterStop ==
    [][nDeq' = nDeq + 1 => ~stopAtGet]_vars

\* C9: once the stop signal is raised no worker begins a new loop
\* iteration: a worker that evaluates the loop condition with stop_event
\* set exits, and every event is removed by the get of an iteration whose
\* loop check read the flag as unset.
C9_NoNewIterationAfterStop ==
    [][/\ (stop_event /\ wpc = "loop" /\ wpc' # "loop") => wpc' = "exited"
       /\ nDeq' = nDeq + 1 => ~stopAtCheck]_vars

\* An event was removed by a get entered after the stop signal was set.
C9_Witness ==
    /\ stop_event
    /\ stopAtGet
    /\ ~stopAtCheck
    /\ wpc = "process_event"

\* C10: the worker leaves its loop only at the loop head, never in the
\* middle of an event, and once join has returned the worker has exited
\* and every event it took from the queue has been finished.
C10_ShutdownWaits ==
    /\ [](mpc \in {"disconnect", "done"} =>
              /\ wpc = "exited"
              /\ unfinished_tasks = Len(event_queue))
    /\ [][(wpc' = "exited" /\ wpc # "exited") =>
              (wpc = "loop" /\ stop_event)]_vars

\* Shutdown completed after the stop signal was raised mid-event.
C10_Witness ==
    /\ mpc = "done"
    /\ stop_mid
    /\ nDeq >= 1

\* C11: a failure to persist the audit artifacts or the snapshot copy does
\* not change the action: an attempt decided false_positive whose audit
\* write failed has still issued exactly one mark-as-false-positive call
\* for the event, and the worker is in its exception handler, not dead.
C11_AuditFailureHarmless ==
    (failure \in {"audit", "save"} /\ final_decision = "false_positive") =>
        /\ Len(calls.mark) = 1
        /\ calls.mark[1].id = event_details.id
        /\ wpc = "except"

\* C12: when client.connect raised, neither the worker nor the client loop
\* is started; when the broker refused the connection (no subscription is
\* made) the worker does not go on with further loop iterations.
C12_NoServiceWithoutSubscription ==
    /\ [](mpc = "returned" => (wpc = "unstarted" /\ ~client_loop))
    /\ [][(connack = "refused" /\ wpc = "loop" /\ wpc' # "loop") =>
              wpc' = "exited"]_vars

\* C13: an attempt that has ended has written an audit record in the
\* partition of its outcome (valid, false_positive, skipped, failed) and in
\* no other outcome partition.
C13_AuditRecordPerOutcome ==
    outcome # "none" =>
        written \cap {"true", "false", "skipped", "failed"} =
            {CASE outcome = "valid" -> "true"
               [] outcome = "false_positive" -> "false"
               [] OTHER -> outcome}

\* C14: the worker takes events in arrival order: each get returns the
\* oldest event not yet taken, everything left in the queue arrived later,
\* and the previous event's processing has ended when the get returns.
C14_ArrivalOrder ==
    [][nDeq' = nDeq + 1 =>
          /\ taken' = nDeq + 1
          /\ wpc \notin ProcessingPcs
          /\ \A i \in 1..Len(arrivals') : arrivals'[i] > taken']_vars

\* The second event to arrive is being processed after the first.
C14_Witness ==
    /\ taken = 2
    /\ nDeq = 2
    /\ wpc \in ProcessingPcs

\* C15: an enqueued event is taken at most once, its attempt makes at most
\* one fetch, one detector invocation and one mark call, reaches exactly
\* one terminal outcome which it keeps until the attempt is dropped, and
\* the worker never puts an event back into the queue.
C15_OneAttemptPerEvent ==
    /\ [](calls.fetch <= 1 /\ calls.detect <= 1 /\ Len(calls.mark) <= 1)
    /\ []((outcome # "none") <=> (wpc \in {"task_done", "except"}))
    /\ [][/\ nDeq' = nDeq + 1 => taken' > taken
          /\ nEnq' = nEnq => Len(event_queue') <= Len(event_queue)
          /\ outcome # "none" =>
                 \/ outcome' = outcome
                 \/ (outcome' = "none" /\ wpc' = "loop")]_vars

\* The only event failed with an exception and was not queued again.
C15_Witness ==
    /\ nExc = 1
    /\ nEnq = 1
    /\ nDeq = 1
    /\ wpc = "in_get"
    /\ event_queue = <<>>

\* C16: the recorded detections are the detector's output up to and
\* including the first qualifying box, or the whole output when no box
\* qualifies, and the decision is valid exactly when that prefix ends in a
\* qualifying box.
C16_RecordedPrefix ==
    final_decision # "none" =>
        LET Q == {i \in 1..Len(objects) :
                     /\ objects[i].class \in TARGET_CLASSES
                     /\ objects[i].confidence > CONFIDENCE_THRESHOLD}
            k == IF Q = {} THEN Len(objects)
                 ELSE CHOOSE i \in Q : \A j \in Q : i <= j
        IN  /\ detections = SubSeq(objects, 1, k)
            /\ final_decision = "valid" <=> k \in Q

\* The audit record was written with one of two boxes: the first qualified.
C16_Witness ==
    /\ "debug/details" \in written
    /\ Len(objects) = 2
    /\ Len(detections) = 1
    /\ final_decision = "valid"

\* C17: after the stop signal is raised, shutdown completes.
C17_ShutdownTerminates ==
    stop_event ~> (mpc = "done")

\* Shutdown completed with an event left in the queue.
C17_Witness ==
    /\ mpc = "done"
    /\ wpc = "exited"
    /\ event_queue # <<>>

\* C18: at most one event is taken from the queue after stop_event is set,
\* by a get of an iteration whose loop check read the flag as unset; the
\* worker then only finishes that event and exits, and once it has exited
\* nothing is taken any more.
C18_AtMostOneAfterStop ==
    /\ [](deqAfterStop <= 1)
    /\ [](deqAfterStop = 1 => wpc \in ProcessingPcs \cup {"loop", "exited"})
    /\ [][/\ (stop_event /\ nDeq' = nDeq + 1) =>
                 (wpc = "in_get" /\ ~stopAtCheck)
          /\ wpc = "exited" => nDeq' = nDeq]_vars

\* One event was taken after the stop, the worker exited, one is left.
C18_Witness ==
    /\ deqAfterStop = 1
    /\ wpc = "exited"
    /\ event_queue # <<>>

\* C19: the queue's unfinished-task count is the number of queued events
\* plus the event being processed, and task_done has not been called more
\* often than get returned an item.
C19_TaskDoneBalanced ==
    /\ unfinished_tasks =
           Len(event_queue) + (IF wpc \in ProcessingPcs THEN 1 ELSE 0)
    /\ nEnq - unfinished_tasks <= nDeq

\* Two events were finished, one of them through the exception handler.
C19_Witness ==
    /\ nDeq = 2
    /\ nExc = 1
    /\ wpc = "loop"
    /\ unfinished_tasks = 0

====
